---------------------------- MODULE Spec2Model ----------------------------
(***************************************************************************)
(* Model of the Node.js runtime of zip-it-and-ship-it: bundler selection   *)
(* and fallback (src/runtimes/node/index.js), the listing entry points     *)
(* (src/main.ts) and the batch behaviour the test suite pins down.         *)
(***************************************************************************)
EXTENDS Integers, Sequences, FiniteSets, TLC

VARIABLES
    \* ---- one call of the node runtime's zipFunction (zipWithFunctionWithFallback)
    config,        \* the function's config: [nodeBundler |-> ...]
    func,          \* the function: extension, entry-file probe outcome, paths
    pc,            \* position of zipWithFunctionWithFallback
    calls,         \* log of the engines invoked by zipFunction, in order
    settled,       \* how each invoked engine settled, in order (history)
    esbuildError,  \* the error caught by the outer catch (line 104)
    outcome,       \* what zipWithFunctionWithFallback returned or threw
    copied,        \* cpFile's effect: set of <<srcPath, destPath>>
    \* ---- which entry point the run exercises
    api,
    \* ---- zipFunctions: the batch of packaging operations
    limit,         \* the concurrency limit: [bounded, k]
    nfuncs,        \* number of discovered functions
    slot,          \* per function: [state, value]
    batch,         \* what zipFunctions returned or threw
    started,       \* zipFunctions has been called
    \* ---- listFunctionsFiles
    lfuncs,        \* the discovered functions, in discovery order
    lslot,         \* per function: the promise of getListedFunctionFiles
    lout,          \* what listFunctionsFiles returned or threw
    lstarted,      \* listFunctionsFiles has been called
    lorder,        \* the order in which the per-function promises settled (history)
    lpc,           \* position of listFunctions
    \* ---- the bundler selected for one function by each of the two callers
    noFileProbe,   \* what detectEsModule answers when it is given no mainFile
    listBundler,   \* the bundler getSrcFilesWithBundler passed to getSrcFiles
    zipBundler,    \* the bundler zipFunction selected
    \* ---- two packaging runs of one function: the Archive Assembler
    files,         \* the function's resolved files (unchanged between runs)
    run,           \* per run: [pc, found, archive]
    clock,         \* the wall clock
    \* ---- dependency resolution of one function
    manifest,      \* the package manifest
    disk,          \* the dependencies installed on disk
    refs,          \* the references still to resolve
    visited,       \* the references resolved so far
    dres,          \* the result of the resolution
    culprit,       \* the reference a MissingDependencyError names
    warnings       \* the references skipped as optional

zipVars == <<config, func, pc, calls, settled, esbuildError, outcome, copied>>
batchVars == <<limit, nfuncs, slot, batch, started>>
listVars == <<lfuncs, lslot, lout, lstarted, lorder, lpc>>
archVars == <<files, run, clock>>
depVars == <<manifest, disk, refs, visited, dres, culprit, warnings>>
selVars == <<noFileProbe, listBundler, zipBundler>>

vars == <<zipVars, api, batchVars, listVars, archVars, depVars, selVars>>

-----------------------------------------------------------------------------
(* Values *)

Undef == "undefined"

JS_BUNDLER_ESBUILD == "esbuild"
JS_BUNDLER_ESBUILD_ZISI == "esbuild_zisi"
JS_BUNDLER_ZISI == "zisi"

\* Paths and extensions are sequences of characters.
ZipExt == <<".", "z", "i", "p">>
TsExt == <<".", "t", "s">>
JsExt == <<".", "j", "s">>

Slash == "/"

\* path.join of a folder and a file name (no dot segments in the inputs used)
join(dir, name) == IF dir = <<>> THEN name
                   ELSE IF name = <<>> THEN dir
                   ELSE dir \o <<Slash>> \o name

\* What config.nodeBundler can hold: nothing, or one of the three bundler names.
NodeBundlers == {Undef, JS_BUNDLER_ESBUILD, JS_BUNDLER_ZISI, JS_BUNDLER_ESBUILD_ZISI}

Extensions == {JsExt, TsExt, ZipExt}

\* Errors thrown by cpFile, zipZisi or zipEsbuild: a message and, for an
\* esbuild build failure, the structured list `errors` (absent otherwise).
Errors == [message : {"E1", "E2"}, errors : {Undef, "buildErrors"}]

NoError == [message |-> "none", errors |-> Undef]

DestFolder == <<"d">>
FileName == <<"f", ".", "x">>
SrcPath == <<"s", Slash, "f", ".", "x">>

-----------------------------------------------------------------------------
(* src/runtimes/node/index.js *)

\* detectEsModule({ mainFile }): the probe of the entry file
detectEsModule(f) == f.isEsModule

getDefaultBundler_AlwaysZisi(extension, f) == JS_BUNDLER_ZISI

\* getDefaultBundler({ extension, mainFile }), lines 15-27
getDefaultBundler(extension, f) ==
    IF extension = TsExt THEN JS_BUNDLER_ESBUILD
    ELSE IF detectEsModule(f) THEN JS_BUNDLER_ESBUILD
    ELSE JS_BUNDLER_ZISI

\* line 52: config.nodeBundler || (await getDefaultBundler({ extension, mainFile }))
SelectedBundler(cfg, f) ==
    IF cfg.nodeBundler # Undef THEN cfg.nodeBundler
    ELSE getDefaultBundler(f.extension, f)

ZipFunctionEngine_BundlerFirst(cfg, f) ==
    IF SelectedBundler(cfg, f) = JS_BUNDLER_ZISI THEN "zipZisi"
    ELSE IF f.extension = ZipExt THEN "cpFile"
    ELSE "zipEsbuild"

\* zipFunction, lines 56-91: which of cpFile / zipZisi / zipEsbuild it awaits
ZipFunctionEngine(cfg, f) ==
    IF f.extension = ZipExt THEN "cpFile"
    ELSE IF SelectedBundler(cfg, f) = JS_BUNDLER_ZISI THEN "zipZisi"
    ELSE "zipEsbuild"

\* One invocation of zipFunction up to its await of the engine.
Invocation(cfg, f) ==
    [engine |-> ZipFunctionEngine(cfg, f),
     bundler |-> SelectedBundler(cfg, f),
     config |-> cfg]

\* line 57: the destination of the copy
DestPath(f) == join(f.destFolder, f.filename)

\* What a successful engine hands back to zipFunction's caller.  cpFile's
\* branch returns { config, path: destPath } (line 59); zipZisi and zipEsbuild
\* return their own result objects, with or without bundler warnings.
EngineResults(inv, f) ==
    IF inv.engine = "cpFile"
    THEN {[config |-> inv.config, path |-> DestPath(f)]}
    ELSE {[config |-> inv.config, path |-> DestPath(f) \o ZipExt, bundler |-> inv.bundler],
          [config |-> inv.config, path |-> DestPath(f) \o ZipExt, bundler |-> inv.bundler,
           bundlerWarnings |-> "warnings"]}

\* { ...data, [key]: value }
Spread(data, key, value) ==
    [k \in (DOMAIN data) \cup {key} |-> IF k = key THEN value ELSE data[k]]

\* lines 96-103: the config of the first zipFunction call
FirstConfig(cfg) ==
    IF cfg.nodeBundler # JS_BUNDLER_ESBUILD_ZISI THEN cfg
    ELSE [cfg EXCEPT !.nodeBundler = JS_BUNDLER_ESBUILD]

RetryConfig_Esbuild(cfg) == [cfg EXCEPT !.nodeBundler = JS_BUNDLER_ESBUILD]

\* line 106: the config of the retry
RetryConfig(cfg) == [cfg EXCEPT !.nodeBundler = JS_BUNDLER_ZISI]

HasFallback_Always(cfg) == TRUE

\* line 96: only the composite bundler reaches the try/catch
HasFallback(cfg) == cfg.nodeBundler = JS_BUNDLER_ESBUILD_ZISI

Returned(v) == [kind |-> "returned", value |-> v]
Thrown(e) == [kind |-> "thrown", value |-> e]
NoOutcome == [kind |-> "none", value |-> Undef]

RetryResult_NoErrors(data, e) == data

\* line 108: { ...data, bundlerErrors: esbuildError.errors }
RetryResult(data, e) == Spread(data, "bundlerErrors", e.errors)

DoubleFailure_RetryError(e1, e2) == e2

\* line 110: throw esbuildError
DoubleFailure(e1, e2) == e1

LastCall == calls[Len(calls)]

ZipStartState ==
    /\ config \in [nodeBundler : NodeBundlers]
    /\ func \in [extension : Extensions, isEsModule : BOOLEAN,
                 destFolder : {DestFolder}, filename : {FileName}, srcPath : {SrcPath}]
    /\ pc = "NotStarted"
    /\ calls = <<>>
    /\ settled = <<>>
    /\ esbuildError = NoError
    /\ outcome = NoOutcome
    /\ copied = {}

\* the orchestrator has not been entered and never is
ZipIdle ==
    /\ config = [nodeBundler |-> Undef]
    /\ func = [extension |-> JsExt, isEsModule |-> FALSE,
               destFolder |-> DestFolder, filename |-> FileName, srcPath |-> SrcPath]
    /\ pc = "idle"
    /\ calls = <<>>
    /\ settled = <<>>
    /\ esbuildError = NoError
    /\ outcome = NoOutcome
    /\ copied = {}

\* zipWithFunctionWithFallback up to the await of its first zipFunction call
ZipStart ==
    /\ pc = "NotStarted"
    /\ calls' = Append(calls, Invocation(FirstConfig(config), func))
    /\ pc' = "first"
    /\ UNCHANGED <<config, func, settled, esbuildError, outcome, copied, api, batchVars, listVars, archVars, depVars, selVars>>

\* the first zipFunction call resolves: lines 97 and 103 return its result
FirstResolves ==
    /\ pc = "first"
    /\ \E data \in EngineResults(LastCall, func) :
          /\ settled' = Append(settled, Returned(data))
          /\ outcome' = Returned(data)
    /\ copied' = IF LastCall.engine = "cpFile"
                 THEN copied \cup {<<func.srcPath, DestPath(func)>>} ELSE copied
    /\ pc' = "done"
    /\ UNCHANGED <<config, func, calls, esbuildError, api, batchVars, listVars, archVars, depVars, selVars>>

\* the first zipFunction call rejects: line 97 propagates, line 104 catches
\* and line 106 starts the retry
FirstRejects ==
    /\ pc = "first"
    /\ \E e \in Errors :
          /\ settled' = Append(settled, Thrown(e))
          /\ IF HasFallback(config)
                THEN /\ esbuildError' = e
                     /\ calls' = Append(calls, Invocation(RetryConfig(config), func))
                     /\ pc' = "retry"
                     /\ UNCHANGED outcome
                ELSE /\ outcome' = Thrown(e)
                     /\ pc' = "done"
                     /\ UNCHANGED <<esbuildError, calls>>
    /\ UNCHANGED <<config, func, copied, api, batchVars, listVars, archVars, depVars, selVars>>

\* the retry resolves: line 108
RetryResolves ==
    /\ pc = "retry"
    /\ \E data \in EngineResults(LastCall, func) :
          /\ settled' = Append(settled, Returned(data))
          /\ outcome' = Returned(RetryResult(data, esbuildError))
    /\ copied' = IF LastCall.engine = "cpFile"
                 THEN copied \cup {<<func.srcPath, DestPath(func)>>} ELSE copied
    /\ pc' = "done"
    /\ UNCHANGED <<config, func, calls, esbuildError, api, batchVars, listVars, archVars, depVars, selVars>>

\* the retry rejects: lines 109-110
RetryRejects ==
    /\ pc = "retry"
    /\ \E zisiError \in Errors :
          /\ settled' = Append(settled, Thrown(zisiError))
          /\ outcome' = Thrown(DoubleFailure(esbuildError, zisiError))
    /\ pc' = "done"
    /\ UNCHANGED <<config, func, calls, esbuildError, copied, api, batchVars, listVars, archVars, depVars, selVars>>

ZipNext ==
    \/ ZipStart
    \/ FirstResolves
    \/ FirstRejects
    \/ RetryResolves
    \/ RetryRejects

-----------------------------------------------------------------------------
(* zipFunctions: the concurrency controller of the batch (spec sections    *)
(* 4.6 and 5; the batch's failure behaviour is what the tests assert)      *)

MaxFuncs == 3
MaxLimit == 2

Limits == {[bounded |-> TRUE, k |-> k] : k \in 1..MaxLimit}
              \cup {[bounded |-> FALSE, k |-> 0]}

PendingSlot == [state |-> "pending", value |-> Undef]
RunningSlot == [state |-> "running", value |-> Undef]
\* the archive of function i, and the error of its packaging
ArchiveOf(i) == [state |-> "ok", value |-> [fn |-> i, result |-> "archive"]]
FailureOf(i) == [state |-> "failed", value |-> [fn |-> i, result |-> "error"]]

InState(s, st) == {i \in DOMAIN s : s[i].state = st}

SetMin(S) == CHOOSE x \in S : \A y \in S : x <= y

CanLaunch_OffByOne(s, lim) ==
    /\ InState(s, "pending") # {}
    /\ (lim.bounded => Cardinality(InState(s, "running")) <= lim.k)

\* a packaging operation may start while fewer than `limit` are in flight
CanLaunch(s, lim) ==
    /\ InState(s, "pending") # {}
    /\ (lim.bounded => Cardinality(InState(s, "running")) < lim.k)

RECURSIVE Launch(_, _)
\* start waiting operations, in discovery order, while the limit allows
Launch(s, lim) ==
    IF CanLaunch(s, lim)
    THEN Launch([s EXCEPT ![SetMin(InState(s, "pending"))] = RunningSlot], lim)
    ELSE s

\* a finished operation frees its place for the next waiting one
Refill(s, lim) == Launch(s, lim)

AllOk(s) == \A i \in DOMAIN s : s[i].state = "ok"

\* The batch's own promise after operation i has settled: it rejects with
\* the error of a failed operation (the tests expect the batch call to
\* throw), and resolves with all the archives once every operation is done.
BatchSettle(b, s, i) ==
    IF b.kind # "none" THEN b
    ELSE IF s[i].state = "failed" THEN Thrown(s[i].value)
    ELSE IF AllOk(s) THEN Returned([j \in DOMAIN s |-> s[j].value])
    ELSE b

BatchStartState ==
    /\ limit \in Limits
    /\ nfuncs \in 0..MaxFuncs
    /\ slot = [i \in 1..nfuncs |-> PendingSlot]
    /\ batch = NoOutcome
    /\ started = FALSE

BatchIdle ==
    /\ limit = [bounded |-> FALSE, k |-> 0]
    /\ nfuncs = 0
    /\ slot = <<>>
    /\ batch = NoOutcome
    /\ started = FALSE

\* zipFunctions is called: the first operations start
BatchStart ==
    /\ api = "zipFunctions"
    /\ ~started
    /\ started' = TRUE
    /\ slot' = Launch(slot, limit)
    /\ batch' = IF nfuncs = 0 THEN Returned(<<>>) ELSE batch
    /\ UNCHANGED <<limit, nfuncs, api, zipVars, listVars, archVars, depVars, selVars>>

\* the packaging of function i succeeds
TaskOk(i) ==
    /\ slot[i].state = "running"
    /\ LET s1 == [slot EXCEPT ![i] = ArchiveOf(i)] IN
          /\ slot' = Refill(s1, limit)
          /\ batch' = BatchSettle(batch, s1, i)
    /\ UNCHANGED <<limit, nfuncs, started, api, zipVars, listVars, archVars, depVars, selVars>>

\* the packaging of function i fails
TaskFail(i) ==
    /\ slot[i].state = "running"
    /\ LET s1 == [slot EXCEPT ![i] = FailureOf(i)] IN
          /\ slot' = Refill(s1, limit)
          /\ batch' = BatchSettle(batch, s1, i)
    /\ UNCHANGED <<limit, nfuncs, started, api, zipVars, listVars, archVars, depVars, selVars>>

BatchTaskOk == \E i \in DOMAIN slot : TaskOk(i)
BatchTaskFail == \E i \in DOMAIN slot : TaskFail(i)

BatchNext ==
    \/ BatchStart
    \/ BatchTaskOk
    \/ BatchTaskFail

-----------------------------------------------------------------------------
(* src/main.ts: listFunctionsFiles *)

MaxListed == 3

GoExt == <<>>
JsonExt == <<".", "j", "s", "o", "n">>

RuntimeJs == [name |-> "js", hasGetSrcFiles |-> TRUE]
RuntimeGo == [name |-> "go", hasGetSrcFiles |-> FALSE]

\* The functions of a directory such as the tests' fixture `list`: a zipped
\* function, a Go binary, a Go binary in a directory whose name has a dot,
\* and a JavaScript function in a directory with a JSON file next to it.
FnZip == [name |-> "test", srcPath |-> <<"t">> \o ZipExt, mainFile |-> <<"t">> \o ZipExt,
          extension |-> ZipExt, runtime |-> RuntimeJs, extra |-> <<>>,
          config |-> [schedule |-> Undef]]
FnGo == [name |-> "test", srcPath |-> <<"t">>, mainFile |-> <<"t">>,
         extension |-> GoExt, runtime |-> RuntimeGo, extra |-> <<>>,
         config |-> [schedule |-> Undef]]
FnGoDir == [name |-> "g", srcPath |-> <<"g", ".", "d">>,
            mainFile |-> <<"g", ".", "d", Slash, "g">>,
            extension |-> GoExt, runtime |-> RuntimeGo, extra |-> <<>>,
            config |-> [schedule |-> "@hourly"]]
FnJs == [name |-> "two", srcPath |-> <<"w">>, mainFile |-> <<"w", Slash, "w">> \o JsExt,
         extension |-> JsExt, runtime |-> RuntimeJs,
         extra |-> << <<"w", Slash, "h">> \o JsonExt >>,
         config |-> [schedule |-> "@daily"]]

Catalog == {FnZip, FnGo, FnGoDir, FnJs}

IsInjective(q) == \A i, j \in DOMAIN q : q[i] = q[j] => i = j

DiscoveredFunctions ==
    {q \in UNION {[1..n -> Catalog] : n \in 0..MaxListed} : IsInjective(q)}

\* path.extname, scanning from the end as Node does; positions are 0-based
\* as in Node, st.done marks the break at the slash before the last segment
RECURSIVE ExtScan(_, _, _)
ExtScan(path, p, st) ==
    IF p = 0 THEN st
    ELSE IF path[p] = Slash
         THEN IF ~st.matchedSlash
              THEN [st EXCEPT !.startPart = p]
              ELSE ExtScan(path, p - 1, st)
         ELSE LET st1 == IF st.end = -1
                         THEN [st EXCEPT !.matchedSlash = FALSE, !.end = p]
                         ELSE st
                  st2 == IF path[p] = "."
                         THEN IF st1.startDot = -1
                              THEN [st1 EXCEPT !.startDot = p - 1]
                              ELSE IF st1.preDotState # 1
                                   THEN [st1 EXCEPT !.preDotState = 1]
                                   ELSE st1
                         ELSE IF st1.startDot # -1
                              THEN [st1 EXCEPT !.preDotState = -1]
                              ELSE st1
              IN ExtScan(path, p - 1, st2)

extname(path) ==
    LET st == ExtScan(path, Len(path),
                      [startDot |-> -1, startPart |-> 0, end |-> -1,
                       matchedSlash |-> TRUE, preDotState |-> 0])
    IN IF \/ st.startDot = -1
          \/ st.end = -1
          \/ st.preDotState = 0
          \/ (st.preDotState = 1 /\ st.startDot = st.end - 1
                                 /\ st.startDot = st.startPart + 1)
       THEN <<>>
       ELSE SubSeq(path, st.startDot + 1, st.end)

\* getSrcFiles of main.ts, lines 71-84: the function's own path for a .zip
\* or a runtime without getSrcFiles ...
OwnPathOnly(f) == f.extension = ZipExt \/ ~f.runtime.hasGetSrcFiles

\* ... and else what the runtime's getSrcFiles resolves to: the main file
\* alone (esbuild inlines the rest) or with the files it requires (zisi)
RuntimeSrcFiles(f) == {<<f.mainFile>>, f.extra \o <<f.mainFile>>}

SrcFilesOf(f) == IF OwnPathOnly(f) THEN {<<f.srcPath>>} ELSE RuntimeSrcFiles(f)

ListedFunctionFile_FunctionExtension(f, srcFile) ==
    [srcFile |-> srcFile, name |-> f.name, mainFile |-> f.mainFile,
     runtime |-> f.runtime.name, extension |-> f.extension]

\* line 68: one entry of getListedFunctionFiles
ListedFunctionFile(f, srcFile) ==
    [srcFile |-> srcFile, name |-> f.name, mainFile |-> f.mainFile,
     runtime |-> f.runtime.name, extension |-> extname(srcFile)]

\* line 68: srcFiles.map(...)
ListedFunctionFiles(f, srcFiles) ==
    [k \in 1..Len(srcFiles) |-> ListedFunctionFile(f, srcFiles[k])]

RECURSIVE Flat(_)
\* Array.prototype.flat over the per-function lists, line 54
Flat(lists) ==
    IF lists = <<>> THEN <<>>
    ELSE Head(lists) \o Flat(Tail(lists))

PromiseAll_CompletionOrder(out, s, i) ==
    IF out.kind # "none" THEN out
    ELSE IF s[i].state = "rejected" THEN Thrown(s[i].value)
    ELSE IF \A j \in DOMAIN s : s[j].state = "resolved"
         THEN Returned(Flat([k \in DOMAIN s |-> s[Append(lorder, i)[k]].value]))
         ELSE out

PromiseAll_AllSettled(out, s, i) ==
    IF out.kind # "none" THEN out
    ELSE IF \A j \in DOMAIN s : s[j].state \in {"resolved", "rejected"}
         THEN Returned(Flat([j \in DOMAIN s |->
                                IF s[j].state = "resolved" THEN s[j].value ELSE <<>>]))
         ELSE out

\* lines 50-54: await Promise.all(...) then flat(), after promise i settled:
\* the first rejection rejects listFunctionsFiles, and it resolves once every
\* promise has resolved
PromiseAll(out, s, i) ==
    IF out.kind # "none" THEN out
    ELSE IF s[i].state = "rejected" THEN Thrown(s[i].value)
    ELSE IF \A j \in DOMAIN s : s[j].state = "resolved"
         THEN Returned(Flat([j \in DOMAIN s |-> s[j].value]))
         ELSE out

ListStartState ==
    /\ lfuncs \in DiscoveredFunctions
    /\ lslot = [i \in DOMAIN lfuncs |-> PendingSlot]
    /\ lout = NoOutcome
    /\ lstarted = FALSE
    /\ lorder = <<>>
    /\ lpc = "idle"

ListIdle ==
    /\ lfuncs = <<>>
    /\ lslot = <<>>
    /\ lout = NoOutcome
    /\ lstarted = FALSE
    /\ lorder = <<>>
    /\ lpc = "idle"

\* listFunctionsFiles is called: line 51 calls getListedFunctionFiles for
\* every function, each running up to its await of getSrcFiles
ListStart ==
    /\ api = "listFunctionsFiles"
    /\ ~lstarted
    /\ lstarted' = TRUE
    /\ lslot' = [i \in DOMAIN lfuncs |-> RunningSlot]
    /\ lout' = IF lfuncs = <<>> THEN Returned(<<>>) ELSE lout
    /\ UNCHANGED <<lfuncs, lorder, lpc, api, zipVars, batchVars, archVars, depVars, selVars>>

\* getSrcFiles of function i resolves and line 68 maps its files
ListResolve(i) ==
    /\ lslot[i].state = "running"
    /\ \E srcFiles \in SrcFilesOf(lfuncs[i]) :
          LET s1 == [lslot EXCEPT ![i] =
                        [state |-> "resolved",
                         value |-> ListedFunctionFiles(lfuncs[i], srcFiles)]]
          IN /\ lslot' = s1
             /\ lout' = PromiseAll(lout, s1, i)
    /\ lorder' = Append(lorder, i)
    /\ UNCHANGED <<lfuncs, lstarted, lpc, api, zipVars, batchVars, archVars, depVars, selVars>>

\* the runtime's getSrcFiles of function i rejects (line 78)
ListReject(i) ==
    /\ lslot[i].state = "running"
    /\ ~OwnPathOnly(lfuncs[i])
    /\ LET s1 == [lslot EXCEPT ![i] =
                     [state |-> "rejected", value |-> [fn |-> i, result |-> "error"]]]
       IN /\ lslot' = s1
          /\ lout' = PromiseAll(lout, s1, i)
    /\ lorder' = Append(lorder, i)
    /\ UNCHANGED <<lfuncs, lstarted, lpc, api, zipVars, batchVars, archVars, depVars, selVars>>

ListResolves == \E i \in DOMAIN lslot : ListResolve(i)
ListRejects == \E i \in DOMAIN lslot : ListReject(i)

ListNext ==
    \/ ListStart
    \/ ListResolves
    \/ ListRejects

-----------------------------------------------------------------------------
(* src/main.ts: listFunctions *)

getListedFunction_NoSchedule(f) ==
    [name |-> f.name, mainFile |-> f.mainFile, runtime |-> f.runtime.name,
     extension |-> f.extension, schedule |-> Undef]

\* lines 57-59: the entry listFunctions returns for one function
getListedFunction(f) ==
    [name |-> f.name, mainFile |-> f.mainFile, runtime |-> f.runtime.name,
     extension |-> f.extension, schedule |-> f.config.schedule]

\* line 37: [...functions.values()].map(getListedFunction)
ListedFunctions(functions) ==
    [i \in DOMAIN functions |-> getListedFunction(functions[i])]

\* the directories hold the functions lfuncs; listFunctions is not yet called
ListFunctionsStartState ==
    /\ lfuncs \in DiscoveredFunctions
    /\ lslot = [i \in DOMAIN lfuncs |-> PendingSlot]
    /\ lout = NoOutcome
    /\ lstarted = FALSE
    /\ lorder = <<>>
    /\ lpc = "NotStarted"

\* lines 33-35: listFunctions up to its await of listFunctionsDirectories
ListFunctionsStart ==
    /\ api = "listFunctions"
    /\ lpc = "NotStarted"
    /\ lpc' = "directories"
    /\ UNCHANGED <<lfuncs, lslot, lout, lstarted, lorder, api,
                   zipVars, batchVars, archVars, depVars, selVars>>

\* line 35 resolves; line 36 awaits getFunctionsFromPaths
ListFunctionsDirectories ==
    /\ api = "listFunctions"
    /\ lpc = "directories"
    /\ lpc' = "functions"
    /\ UNCHANGED <<lfuncs, lslot, lout, lstarted, lorder, api,
                   zipVars, batchVars, archVars, depVars, selVars>>

\* line 36 resolves; lines 37-38 map the functions and return
ListFunctionsReturn ==
    /\ api = "listFunctions"
    /\ lpc = "functions"
    /\ lpc' = "done"
    /\ lout' = Returned(ListedFunctions(lfuncs))
    /\ UNCHANGED <<lfuncs, lslot, lstarted, lorder, api,
                   zipVars, batchVars, archVars, depVars, selVars>>

\* the await of line 35 or of line 36 rejects: listFunctions rejects
ListFunctionsRejects ==
    /\ api = "listFunctions"
    /\ lpc \in {"directories", "functions"}
    /\ lpc' = "done"
    /\ lout' = Thrown([at |-> lpc, result |-> "error"])
    /\ UNCHANGED <<lfuncs, lslot, lstarted, lorder, api,
                   zipVars, batchVars, archVars, depVars, selVars>>

ListFunctionsNext ==
    \/ ListFunctionsStart
    \/ ListFunctionsDirectories
    \/ ListFunctionsReturn
    \/ ListFunctionsRejects

-----------------------------------------------------------------------------
(* src/runtimes/node/index.js: the bundler each caller selects for a function *)

\* line 32 calls getDefaultBundler({ extension }) with no mainFile: the probe
\* is handed `undefined` and its answer cannot depend on the entry file
NoMainFile(probe) == [mainFile |-> Undef, isEsModule |-> probe]

\* getSrcFilesWithBundler, lines 31-35: the bundler it passes to getSrcFiles
getSrcFilesWithBundler(cfg, f, probe) ==
    IF cfg.nodeBundler # Undef THEN cfg.nodeBundler
    ELSE getDefaultBundler(f.extension, NoMainFile(probe))

SelStartState ==
    /\ config \in [nodeBundler : NodeBundlers]
    /\ func \in [extension : Extensions, isEsModule : BOOLEAN,
                 destFolder : {DestFolder}, filename : {FileName}, srcPath : {SrcPath}]
    /\ pc = "idle"
    /\ calls = <<>>
    /\ settled = <<>>
    /\ esbuildError = NoError
    /\ outcome = NoOutcome
    /\ copied = {}
    /\ noFileProbe \in BOOLEAN
    /\ listBundler = Undef
    /\ zipBundler = Undef

SelIdle ==
    /\ noFileProbe = FALSE
    /\ listBundler = Undef
    /\ zipBundler = Undef

\* listFunctionsFiles reaches getSrcFilesWithBundler for the function, which
\* getSrcFiles of main.ts (line 74) does for any function but a .zip
SelectForList ==
    /\ api = "selectBundler"
    /\ func.extension # ZipExt
    /\ listBundler = Undef
    /\ listBundler' = getSrcFilesWithBundler(config, func, noFileProbe)
    /\ UNCHANGED <<noFileProbe, zipBundler, api, zipVars, batchVars, listVars, archVars, depVars>>

\* zipFunction reaches line 52 for the same function and config
SelectForZip ==
    /\ api = "selectBundler"
    /\ zipBundler = Undef
    /\ zipBundler' = SelectedBundler(config, func)
    /\ UNCHANGED <<noFileProbe, listBundler, api, zipVars, batchVars, listVars, archVars, depVars>>

SelNext ==
    \/ SelectForList
    \/ SelectForZip

-----------------------------------------------------------------------------
(* The Archive Assembler (spec sections 3, 4.5 and 5): two packaging runs  *)
(* of the same function, as in the test `Produces deterministic checksums` *)

MaxFiles == 3
MaxClock == 2

\* the mtime every entry is written with
FixedMtime == 0

Alphabet == <<".", "/", "a", "b", "j", "n", "s">>
CharCode(c) == CHOOSE i \in DOMAIN Alphabet : Alphabet[i] = c

RECURSIVE PathLess(_, _)
\* a sorts before b: order of the characters, a prefix first
PathLess(a, b) ==
    IF b = <<>> THEN FALSE
    ELSE IF a = <<>> THEN TRUE
    ELSE IF Head(a) = Head(b) THEN PathLess(Tail(a), Tail(b))
    ELSE CharCode(Head(a)) < CharCode(Head(b))

\* files a function's closure may hold
CandidateFiles ==
    {[path |-> <<"a", ".", "j", "s">>, mode |-> 6, bytes |-> 1],
     [path |-> <<"b", ".", "j", "s">>, mode |-> 6, bytes |-> 2],
     [path |-> <<"n", "/", "a", ".", "j", "s">>, mode |-> 7, bytes |-> 1],
     [path |-> <<"a">>, mode |-> 7, bytes |-> 3]}

RECURSIVE Insert(_, _)
Insert(f, sorted) ==
    IF sorted = <<>> THEN <<f>>
    ELSE IF PathLess(f.path, Head(sorted).path) THEN <<f>> \o sorted
    ELSE <<Head(sorted)>> \o Insert(f, Tail(sorted))

RECURSIVE InsertionSort(_)
InsertionSort(q) ==
    IF q = <<>> THEN <<>> ELSE Insert(Head(q), InsertionSort(Tail(q)))

SortByPath_TraversalOrder(q) == q

\* "sort all output entries by path"
SortByPath(q) == InsertionSort(q)

EntryMtime_WallClock(now) == now

\* "a fixed, non-varying modification timestamp"
EntryMtime(now) == FixedMtime

\* one archive entry: {name, mode, mtime, bytes}
Entry(f, now) == [name |-> f.path, mode |-> f.mode, mtime |-> EntryMtime(now), bytes |-> f.bytes]

\* the archive written from the files found, at wall-clock time `now`
Assembled(found, now) ==
    LET sorted == SortByPath(found)
    IN [k \in 1..Len(sorted) |-> Entry(sorted[k], now)]

HashBase == 31
HashMod == 65521

RECURSIVE HashSeq(_, _)
HashSeq(q, h) ==
    IF q = <<>> THEN h ELSE HashSeq(Tail(q), (h * HashBase + Head(q)) % HashMod)

\* the numbers an entry is written as: its name, then mode, mtime and bytes
EntryBytes(e) == [k \in 1..Len(e.name) |-> CharCode(e.name[k])] \o <<0, e.mode, e.mtime, e.bytes>>

RECURSIVE ArchiveBytes(_)
ArchiveBytes(a) == IF a = <<>> THEN <<>> ELSE EntryBytes(Head(a)) \o ArchiveBytes(Tail(a))

\* the checksum of the archive file (computeSha1 in the tests)
Checksum(a) == HashSeq(ArchiveBytes(a), 7)

Runs == {1, 2}

Range(q) == {q[k] : k \in DOMAIN q}

ArchStartState ==
    /\ files \in {F \in SUBSET CandidateFiles : F # {} /\ Cardinality(F) <= MaxFiles}
    /\ run = [r \in Runs |-> [pc |-> "idle", found |-> <<>>, archive |-> <<>>]]
    /\ clock = 0

ArchIdle ==
    /\ files = {}
    /\ run = [r \in Runs |-> [pc |-> "off", found |-> <<>>, archive |-> <<>>]]
    /\ clock = 0

\* a packaging run of the function starts
RunStart(r) ==
    /\ run[r].pc = "idle"
    /\ run' = [run EXCEPT ![r].pc = "traverse"]
    /\ UNCHANGED <<files, clock, api, zipVars, batchVars, listVars, depVars, selVars>>

\* the traversal of run r reaches one more file, in any order
Visit(r) ==
    /\ run[r].pc = "traverse"
    /\ \E f \in files \ Range(run[r].found) :
          run' = [run EXCEPT ![r].found = Append(@, f)]
    /\ UNCHANGED <<files, clock, api, zipVars, batchVars, listVars, depVars, selVars>>

\* run r has the whole file set and writes its archive
Assemble(r) ==
    /\ run[r].pc = "traverse"
    /\ Range(run[r].found) = files
    /\ run' = [run EXCEPT ![r].pc = "done", ![r].archive = Assembled(run[r].found, clock)]
    /\ UNCHANGED <<files, clock, api, zipVars, batchVars, listVars, depVars, selVars>>

\* time passes
Tick ==
    /\ api = "archive"
    /\ clock < MaxClock
    /\ clock' = clock + 1
    /\ UNCHANGED <<files, run, api, zipVars, batchVars, listVars, depVars, selVars>>

ArchRunStart == \E r \in Runs : RunStart(r)
ArchVisit == \E r \in Runs : Visit(r)
ArchAssemble == \E r \in Runs : Assemble(r)

ArchNext ==
    \/ ArchRunStart
    \/ ArchVisit
    \/ ArchAssemble
    \/ Tick

-----------------------------------------------------------------------------
(* Resolution of references to dependencies absent on disk (spec sections  *)
(* 4.2, 4.3 and 8, and the manifests the tests exercise)                   *)

DepNames == {"left-pad", "critters"}

\* the version of `next` the manifest depends on, if any
NextVersions == {"none", "9", "10"}

Manifests ==
    [optionalDependencies : SUBSET DepNames,
     peerDependencies : SUBSET DepNames,
     peerOptional : SUBSET DepNames,
     next : NextVersions]

IsOptionalModule_MetaOnly(d, m) ==
    \/ d \in m.optionalDependencies
    \/ d \in m.peerOptional

\* declared optional, or a peer dependency marked optional in
\* peerDependenciesMeta
IsOptionalModule(d, m) ==
    \/ d \in m.optionalDependencies
    \/ (d \in m.peerOptional /\ d \in m.peerDependencies)

\* the known-quirky package table: critters, required by Next.js 10
IsExternalCrittersModule(d, m) == d = "critters" /\ m.next = "10"

\* what the reference to d resolves to
Resolution(d, m, installed) ==
    IF d \in installed THEN "resolved"
    ELSE IF IsOptionalModule(d, m) \/ IsExternalCrittersModule(d, m) THEN "skipped"
    ELSE "MissingDependencyError"

DepStartState ==
    /\ manifest \in Manifests
    /\ disk \in SUBSET DepNames
    /\ refs \in (SUBSET DepNames) \ {{}}
    /\ visited = {}
    /\ dres = "resolving"
    /\ culprit = Undef
    /\ warnings = {}

DepIdle ==
    /\ manifest = [optionalDependencies |-> {}, peerDependencies |-> {},
                   peerOptional |-> {}, next |-> "none"]
    /\ disk = {}
    /\ refs = {}
    /\ visited = {}
    /\ dres = "off"
    /\ culprit = Undef
    /\ warnings = {}

\* the Graph Builder resolves one reference of the function
ResolveReference ==
    /\ dres = "resolving"
    /\ \E d \in refs :
          LET r == Resolution(d, manifest, disk) IN
          /\ refs' = refs \ {d}
          /\ visited' = visited \cup {d}
          /\ warnings' = IF r = "skipped" THEN warnings \cup {d} ELSE warnings
          /\ dres' = IF r = "MissingDependencyError" THEN r ELSE dres
          /\ culprit' = IF r = "MissingDependencyError" THEN d ELSE culprit
    /\ UNCHANGED <<manifest, disk, api, zipVars, batchVars, listVars, archVars, selVars>>

\* every reference is resolved: packaging goes on
ResolutionDone ==
    /\ dres = "resolving"
    /\ refs = {}
    /\ dres' = "ok"
    /\ UNCHANGED <<manifest, disk, refs, visited, culprit, warnings,
                   api, zipVars, batchVars, listVars, archVars, selVars>>

DepNext ==
    \/ ResolveReference
    \/ ResolutionDone

-----------------------------------------------------------------------------
(* Specifications *)

ZipInit == ZipStartState /\ api = "zipFunction" /\ BatchIdle /\ ListIdle /\ ArchIdle /\ DepIdle /\ SelIdle

\* one call of the node runtime's zipFunction
SpecZip == ZipInit /\ [][ZipNext]_vars

BatchInit == BatchStartState /\ api = "zipFunctions" /\ ZipIdle /\ ListIdle /\ ArchIdle /\ DepIdle /\ SelIdle

\* one call of zipFunctions
SpecBatch == BatchInit /\ [][BatchNext]_vars

ListInit == ListStartState /\ api = "listFunctionsFiles" /\ ZipIdle /\ BatchIdle /\ ArchIdle /\ DepIdle /\ SelIdle

\* one call of listFunctionsFiles
SpecList == ListInit /\ [][ListNext]_vars

ArchInit == ArchStartState /\ api = "archive" /\ ZipIdle /\ BatchIdle /\ ListIdle /\ DepIdle /\ SelIdle

\* two concurrent packaging runs of one function
SpecArchive == ArchInit /\ [][ArchNext]_vars

DepInit == DepStartState /\ api = "resolve" /\ ZipIdle /\ BatchIdle /\ ListIdle /\ ArchIdle /\ SelIdle

\* the resolution of one function's references
SpecDeps == DepInit /\ [][DepNext]_vars

\* one call of either batch entry point
BatchModesInit == BatchInit \/ ListInit

BatchModesNext ==
    \/ BatchStart
    \/ BatchTaskOk
    \/ BatchTaskFail
    \/ ListStart
    \/ ListResolves
    \/ ListRejects

SpecBatchModes == BatchModesInit /\ [][BatchModesNext]_vars

ListFunctionsInit ==
    ListFunctionsStartState /\ api = "listFunctions" /\ ZipIdle /\ BatchIdle /\ ArchIdle /\ DepIdle /\ SelIdle

\* one call of listFunctions
SpecListFunctions == ListFunctionsInit /\ [][ListFunctionsNext]_vars

SelInit == SelStartState /\ api = "selectBundler" /\ BatchIdle /\ ListIdle /\ ArchIdle /\ DepIdle

\* the two callers of getDefaultBundler, for one function and one config
SpecSelect == SelInit /\ [][SelNext]_vars

-----------------------------------------------------------------------------
(* Properties of the bundler orchestrator, checked under SpecZip *)

Composite == config.nodeBundler = JS_BUNDLER_ESBUILD_ZISI

BothFailed ==
    /\ pc = "done"
    /\ Len(settled) = 2
    /\ settled[1].kind = "thrown"
    /\ settled[2].kind = "thrown"

\* C1: with the composite bundler, when the esbuild attempt and the zisi
\* retry both fail, the error thrown by zipWithFunctionWithFallback is the
\* error of the first attempt, whatever the two errors are.
C1_PrimaryErrorSurfaced ==
    (Composite /\ BothFailed) => outcome = Thrown(settled[1].value)

C1_Witness ==
    /\ Composite
    /\ BothFailed
    /\ settled[1].value # settled[2].value
    /\ calls[1].engine = "zipEsbuild"
    /\ calls[2].engine = "zipZisi"
    /\ outcome.kind = "thrown"

FailedThenSucceeded ==
    /\ pc = "done"
    /\ Len(settled) = 2
    /\ settled[1].kind = "thrown"
    /\ settled[2].kind = "returned"

\* C2: with the composite bundler, when the esbuild attempt fails and the
\* zisi retry succeeds, nothing is thrown: the result is the retry's data,
\* key by key, plus bundlerErrors holding the first error's `errors`.
C2_RetrySuccessCarriesBundlerErrors ==
    (Composite /\ FailedThenSucceeded) =>
        /\ outcome.kind = "returned"
        /\ DOMAIN outcome.value = (DOMAIN settled[2].value) \cup {"bundlerErrors"}
        /\ \A k \in DOMAIN settled[2].value : outcome.value[k] = settled[2].value[k]
        /\ outcome.value["bundlerErrors"] = settled[1].value.errors

C2_Witness ==
    /\ Composite
    /\ FailedThenSucceeded
    /\ settled[1].value.errors = "buildErrors"
    /\ calls[2].engine = "zipZisi"
    /\ outcome.kind = "returned"

\* C3: when nodeBundler is anything but the composite bundler (unset
\* included), zipFunction is called once; its failure is thrown unchanged
\* and the engine of the other bundler is never invoked.
C3_PinnedNeverFallsBack ==
    (~Composite) =>
        /\ Len(calls) <= 1
        /\ (pc = "done" /\ settled[1].kind = "thrown") => outcome = settled[1]
        /\ config.nodeBundler = JS_BUNDLER_ESBUILD =>
              \A i \in 1..Len(calls) : calls[i].engine # "zipZisi"
        /\ config.nodeBundler = JS_BUNDLER_ZISI =>
              \A i \in 1..Len(calls) : calls[i].engine # "zipEsbuild"

C3_Witness ==
    /\ config.nodeBundler = JS_BUNDLER_ESBUILD
    /\ func.extension = JsExt
    /\ pc = "done"
    /\ Len(calls) = 1
    /\ settled[1].kind = "thrown"
    /\ outcome.kind = "thrown"

\* C4: a .zip function is only ever copied: every engine invoked is cpFile,
\* whatever nodeBundler is and whatever the probe of the entry file says,
\* and a returned result names join(destFolder, filename), to which the
\* source has been copied.
C4_ZipIsPassthrough ==
    (func.extension = ZipExt) =>
        /\ \A i \in 1..Len(calls) : calls[i].engine = "cpFile"
        /\ outcome.kind = "returned" =>
              /\ outcome.value.path = join(func.destFolder, func.filename)
              /\ <<func.srcPath, join(func.destFolder, func.filename)>> \in copied

C4_Witness ==
    /\ func.extension = ZipExt
    /\ config.nodeBundler = JS_BUNDLER_ZISI
    /\ func.isEsModule
    /\ pc = "done"
    /\ outcome.kind = "returned"

EngineOf(bundler) == IF bundler = JS_BUNDLER_ZISI THEN "zipZisi" ELSE "zipEsbuild"

\* the strategy C5 states for one zipFunction call
C5_StatedBundler(inv) ==
    IF inv.config.nodeBundler # Undef THEN inv.config.nodeBundler
    ELSE IF func.isEsModule THEN JS_BUNDLER_ESBUILD
    ELSE JS_BUNDLER_ZISI

\* C5 as stated: for a function that is not a .zip, zipFunction runs the
\* pinned bundler, else esbuild when the entry file is an ES module and zisi
\* when it is not.
C5_Original ==
    (func.extension # ZipExt) =>
        \A i \in 1..Len(calls) :
            /\ calls[i].bundler = C5_StatedBundler(calls[i])
            /\ calls[i].engine = EngineOf(C5_StatedBundler(calls[i]))

\* the strategy of the amended C5: a .ts entry file selects esbuild
C5_AmendedBundler(inv) ==
    IF inv.config.nodeBundler # Undef THEN inv.config.nodeBundler
    ELSE IF func.extension = TsExt \/ func.isEsModule THEN JS_BUNDLER_ESBUILD
    ELSE JS_BUNDLER_ZISI

\* C5 amended: for a function that is not a .zip, zipFunction runs the
\* pinned bundler, else esbuild when the extension is .ts or the entry file
\* is an ES module, and zisi otherwise; the engine run is the selected one's.
C5_SelectedBundlerRuns ==
    (func.extension # ZipExt) =>
        \A i \in 1..Len(calls) :
            /\ calls[i].bundler = C5_AmendedBundler(calls[i])
            /\ calls[i].engine = EngineOf(C5_AmendedBundler(calls[i]))

C5_Witness ==
    /\ func.extension = TsExt
    /\ config.nodeBundler = Undef
    /\ ~func.isEsModule
    /\ pc = "done"
    /\ calls[1].engine = "zipEsbuild"
    /\ outcome.kind = "returned"

-----------------------------------------------------------------------------
(* Properties of the batch entry points *)

InFlight == Cardinality(InState(slot, "running"))

AllSettled(s) == \A i \in DOMAIN s : s[i].state \notin {"pending", "running"}

Basename(path) ==
    LET nonSlash == {p \in DOMAIN path : path[p] # Slash}
        e == IF nonSlash = {} THEN 0 ELSE CHOOSE p \in nonSlash : \A q \in nonSlash : q <= p
        slashes == {p \in 1..e : path[p] = Slash}
        b == IF slashes = {} THEN 0 ELSE CHOOSE p \in slashes : \A q \in slashes : q <= p
    IN SubSeq(path, b + 1, e)

\* ext is the extension of path: the part of the last segment from its last
\* dot on, empty when the only dot leads the segment or the segment is ".."
IsExtensionOf(ext, path) ==
    LET base == Basename(path)
        dots == {p \in 2..Len(base) : base[p] = "."}
    IN IF dots = {} \/ base = <<".", ".">>
       THEN ext = <<>>
       ELSE ext = SubSeq(base, CHOOSE p \in dots : \A q \in dots : q <= p, Len(base))

EntriesOf(f, list) == {k \in DOMAIN list : list[k].mainFile = f.mainFile}

\* C10: listFunctionsFiles invokes no bundler and writes no archive; the
\* list it returns holds, for a .zip function or one whose runtime has no
\* getSrcFiles, exactly one entry, whose srcFile is the function's own path;
\* every entry has the name, mainFile and runtime name of its function and
\* the extension of its own srcFile.
C10_ListedFunctionFiles ==
    /\ calls = <<>> /\ settled = <<>> /\ copied = {} /\ ~started
    /\ lout.kind = "returned" =>
          /\ \A i \in DOMAIN lfuncs :
                (lfuncs[i].extension = ZipExt \/ ~lfuncs[i].runtime.hasGetSrcFiles) =>
                    /\ Cardinality(EntriesOf(lfuncs[i], lout.value)) = 1
                    /\ \A k \in EntriesOf(lfuncs[i], lout.value) :
                          lout.value[k].srcFile = lfuncs[i].srcPath
          /\ \A k \in DOMAIN lout.value :
                /\ \E i \in DOMAIN lfuncs :
                      /\ lout.value[k].name = lfuncs[i].name
                      /\ lout.value[k].mainFile = lfuncs[i].mainFile
                      /\ lout.value[k].runtime = lfuncs[i].runtime.name
                /\ IsExtensionOf(lout.value[k].extension, lout.value[k].srcFile)

C10_Witness ==
    /\ lout.kind = "returned"
    /\ \E k \in DOMAIN lout.value : lout.value[k].srcFile = FnZip.srcPath
    /\ \E k \in DOMAIN lout.value :
          /\ lout.value[k].srcFile = FnGoDir.srcPath
          /\ lout.value[k].extension # FnGoDir.extension
    /\ \E k \in DOMAIN lout.value : lout.value[k].extension = JsonExt

-----------------------------------------------------------------------------
(* Properties of the Archive Assembler and of dependency resolution *)

BothDone == run[1].pc = "done" /\ run[2].pc = "done"

\* C8: two packaging runs of the same unchanged function, interleaved in any
\* way and traversing the files in any order, write archives with equal
\* checksums: each archive lists its entries in path order, every entry with
\* the fixed modification time.
C8_DeterministicChecksum ==
    /\ BothDone => Checksum(run[1].archive) = Checksum(run[2].archive)
    /\ \A r \in Runs : run[r].pc = "done" =>
          /\ {run[r].archive[k].name : k \in DOMAIN run[r].archive} = {f.path : f \in files}
          /\ \A k, l \in DOMAIN run[r].archive :
                k < l => PathLess(run[r].archive[k].name, run[r].archive[l].name)
          /\ \A k \in DOMAIN run[r].archive : run[r].archive[k].mtime = FixedMtime

C8_Witness ==
    /\ BothDone
    /\ Cardinality(files) > 2
    /\ run[1].found # run[2].found
    /\ clock > 0

\* what C9 calls declared optional or peer-optional in the manifest
C9_DeclaredOptional(d) ==
    \/ d \in manifest.optionalDependencies
    \/ (d \in manifest.peerDependencies /\ d \in manifest.peerOptional)

FailsOn(d) == dres = "MissingDependencyError" /\ culprit = d

\* C9 as stated: a resolved reference to a dependency absent on disk fails
\* packaging exactly when the dependency is not declared optional or
\* peer-optional.
C9_Original ==
    \A d \in visited \ disk : FailsOn(d) <=> ~C9_DeclaredOptional(d)

\* C9 amended: a resolved reference to a dependency absent on disk does not
\* fail packaging when the dependency is declared optional or peer-optional,
\* or is critters under Next.js 10 (the known-quirky package table), and it
\* fails packaging with MissingDependencyError in every other case: a peer
\* dependency not marked optional and an optional-peer marker without a peer
\* dependency declaration among them.
C9_OptionalLeniency ==
    \A d \in visited \ disk :
        /\ FailsOn(d) <=>
              ~(C9_DeclaredOptional(d) \/ (d = "critters" /\ manifest.next = "10"))
        /\ ~FailsOn(d) => d \in warnings

C9_Witness ==
    /\ "critters" \in visited \ disk
    /\ ~C9_DeclaredOptional("critters")
    /\ "critters" \in warnings
    /\ "left-pad" \in visited \ disk
    /\ "left-pad" \in manifest.peerOptional
    /\ "left-pad" \notin manifest.peerDependencies
    /\ "left-pad" \notin manifest.optionalDependencies
    /\ FailsOn("left-pad")


-----------------------------------------------------------------------------
(* Properties of listFunctions, checked under SpecListFunctions *)

ListedKeys == {"name", "mainFile", "runtime", "extension", "schedule"}

\* C11: listFunctions is discovery only: what it returns has exactly one
\* entry per discovered function, in discovery order, made of the function's
\* name, mainFile, runtime name, extension and its config's schedule; and no
\* bundler is invoked, no source file is resolved and nothing is written.
C11_ListFunctionsIsDiscoveryOnly ==
    api = "listFunctions" =>
        /\ calls = <<>> /\ settled = <<>> /\ copied = {}
        /\ ~started /\ slot = <<>>
        /\ ~lstarted /\ \A i \in DOMAIN lslot : lslot[i].state = "pending"
        /\ \A r \in Runs : run[r].archive = <<>>
        /\ lout.kind = "returned" =>
              /\ DOMAIN lout.value = DOMAIN lfuncs
              /\ \A i \in DOMAIN lfuncs :
                    /\ DOMAIN lout.value[i] = ListedKeys
                    /\ lout.value[i].name = lfuncs[i].name
                    /\ lout.value[i].mainFile = lfuncs[i].mainFile
                    /\ lout.value[i].runtime = lfuncs[i].runtime.name
                    /\ lout.value[i].extension = lfuncs[i].extension
                    /\ lout.value[i].schedule = lfuncs[i].config.schedule

C11_Witness ==
    /\ api = "listFunctions"
    /\ lpc = "done"
    /\ lout.kind = "returned"
    /\ Len(lout.value) = 3
    /\ lout.value[1].schedule = "@daily"
    /\ lout.value[2].runtime = "go"
    /\ lout.value[3].extension = ZipExt
    /\ lout.value[3].schedule = Undef


-----------------------------------------------------------------------------
(* Further properties of the bundler orchestrator *)

\* C12: on a TypeScript function (extension .ts) zipFunction never invokes
\* zisi, whatever nodeBundler is: the only engine it runs is esbuild.
C12_TypeScriptNeverRunsZisi ==
    func.extension = TsExt =>
        \A k \in DOMAIN calls : calls[k].engine = "zipEsbuild"

\* the states of one call of zipWithFunctionWithFallback; PrimaryFailed is
\* the catch of line 104, left in the same step for FallbackAttempted
OrchState ==
    IF pc = "NotStarted" THEN "NotStarted"
    ELSE IF pc = "first" THEN "StrategySelected"
    ELSE IF pc = "retry" THEN "FallbackAttempted"
    ELSE IF outcome.kind = "returned" THEN "Succeeded"
    ELSE IF outcome.kind = "thrown" THEN "Failed"
    ELSE "Other"

OrchTransitions ==
    {<<"NotStarted", "StrategySelected">>,
     <<"StrategySelected", "Succeeded">>,
     <<"StrategySelected", "FallbackAttempted">>,
     <<"FallbackAttempted", "Succeeded">>,
     <<"FallbackAttempted", "Failed">>}

\* the attempts made so far are in the order the composite bundler allows,
\* the first running engine `first` and the second engine `second`
CompositeAttempts(first, second) ==
    /\ Len(calls) <= 2
    /\ OrchState \in {"NotStarted", "StrategySelected", "FallbackAttempted",
                       "Succeeded", "Failed"}
    /\ OrchState = "NotStarted" <=> calls = <<>>
    /\ Len(calls) >= 1 => calls[1].engine = first
    /\ Len(calls) = 2 =>
          /\ settled[1].kind = "thrown"
          /\ calls[2].engine = second
    /\ \A k \in DOMAIN calls : calls[k].engine = "zipZisi" => k = 2
    /\ OrchState = "FallbackAttempted" => Len(calls) = 2 /\ Len(settled) = 1
    /\ OrchState \in {"Succeeded", "Failed"} => Len(settled) = Len(calls)

\* C13 as stated: under the composite bundler esbuild is always the first
\* engine attempted, zisi is attempted only after esbuild failed and at most
\* once, and there are never more than two attempts.
C13_Original ==
    Composite => CompositeAttempts("zipEsbuild", "zipZisi")

FirstEngine == IF func.extension = ZipExt THEN "cpFile" ELSE "zipEsbuild"
SecondEngine == IF func.extension = ZipExt THEN "cpFile" ELSE "zipZisi"

\* C13: under the composite bundler a call goes NotStarted ->
\* StrategySelected -> Succeeded, or on to PrimaryFailed -> FallbackAttempted
\* -> Succeeded or Failed, and in no other way; the first attempt runs
\* esbuild and the second, made only after the first failed and only once,
\* runs zisi, except that for a .zip function both attempts are the copy and
\* neither bundler runs; there are never more than two attempts; and the
\* call ends in Succeeded or Failed only: in every other state it has a step
\* left to take.
C13_CompositeStateMachine ==
    /\ [](Composite => CompositeAttempts(FirstEngine, SecondEngine))
    /\ [][Composite => <<OrchState, OrchState'>> \in OrchTransitions]_OrchState
    /\ []((Composite /\ OrchState \notin {"Succeeded", "Failed"}) => ENABLED ZipNext)

C13_Witness ==
    /\ Composite
    /\ func.extension = ZipExt
    /\ OrchState = "Succeeded"
    /\ Len(calls) = 2
    /\ calls[1].engine = "cpFile"
    /\ calls[2].engine = "cpFile"
    /\ settled[1].kind = "thrown"


-----------------------------------------------------------------------------
(* Properties of the bundler selection, checked under SpecSelect *)

\* C14: for the same function and the same config, the bundler selected when
\* the function's source files are listed (getSrcFilesWithBundler) is the
\* bundler selected when it is packaged (zipFunction), an entry file with
\* ES-module syntax and an unset nodeBundler included.
C14_SameBundlerListedAndPackaged ==
    (listBundler # Undef /\ zipBundler # Undef) => listBundler = zipBundler


-----------------------------------------------------------------------------
(* Further properties of listFunctionsFiles, checked under SpecList *)

RECURSIVE OffsetOf(_, _)
\* the number of files of the functions discovered before function i
OffsetOf(s, i) ==
    IF i <= 1 THEN 0 ELSE OffsetOf(s, i - 1) + Len(s[i - 1].value)

\* C15: what listFunctionsFiles returns is the file list of the first
\* discovered function, then that of the second, and so on, in whatever
\* order the per-function resolutions completed; and once the resolution of
\* one function has failed listFunctionsFiles has failed: it returns nothing.
C15_DiscoveryOrderAllOrNothing ==
    /\ lout.kind = "returned" =>
          /\ Len(lout.value) = OffsetOf(lslot, Len(lslot) + 1)
          /\ \A i \in DOMAIN lslot : \A k \in DOMAIN lslot[i].value :
                lout.value[OffsetOf(lslot, i) + k] = lslot[i].value[k]
    /\ (\E i \in DOMAIN lslot : lslot[i].state = "rejected") =>
          /\ lout.kind = "thrown"
          /\ \E i \in DOMAIN lslot :
                lslot[i].state = "rejected" /\ lout.value = lslot[i].value

C15_Witness ==
    /\ api = "listFunctionsFiles"
    /\ lout.kind = "returned"
    /\ lorder = <<3, 1, 2>>
    /\ Len(lslot[1].value) = 2
    /\ Len(lout.value) = 4
    /\ lout.value[4].name = lfuncs[3].name
    /\ lout.value[1].name # lout.value[4].name


-----------------------------------------------------------------------------
(* The bundlerErrors key of a result, checked under SpecZip *)

HasBundlerErrors == "bundlerErrors" \in DOMAIN outcome.value

FirstAttemptSucceeded ==
    /\ pc = "done"
    /\ Len(settled) = 1
    /\ settled[1].kind = "returned"

\* C16 as stated: a returned result has a bundlerErrors key exactly when the
\* composite bundler was configured, the esbuild attempt failed and the zisi
\* retry succeeded; the result of a first attempt that succeeded is returned
\* as it is, without the key.
C16_Original ==
    outcome.kind = "returned" =>
        /\ HasBundlerErrors <=>
              /\ Composite
              /\ FailedThenSucceeded
              /\ calls[1].engine = "zipEsbuild"
              /\ calls[2].engine = "zipZisi"
        /\ FirstAttemptSucceeded =>
              outcome.value = settled[1].value /\ ~HasBundlerErrors

\* C16: a returned result has a bundlerErrors key exactly when the composite
\* bundler was configured, the first attempt failed and the retry succeeded,
\* the two attempts being esbuild and zisi, or the copy twice for a .zip
\* function; the result of a first attempt that succeeded, pinned or
\* composite, is returned as it is, without the key.
C16_BundlerErrorsOnlyAfterFallback ==
    outcome.kind = "returned" =>
        /\ HasBundlerErrors <=> (Composite /\ FailedThenSucceeded)
        /\ FailedThenSucceeded =>
              /\ calls[1].engine = FirstEngine
              /\ calls[2].engine = SecondEngine
        /\ FirstAttemptSucceeded =>
              outcome.value = settled[1].value /\ ~HasBundlerErrors

C16_Witness ==
    /\ Composite
    /\ func.extension = ZipExt
    /\ FailedThenSucceeded
    /\ outcome.kind = "returned"
    /\ HasBundlerErrors
    /\ outcome.value["bundlerErrors"] = Undef
    /\ copied # {}

====
